---- MODULE Spec2Model ----
(***************************************************************************)
(* The 8-puzzle solver of src/server.js: the PuzzleState class, the two    *)
(* heuristics, the three search drivers (bfs, bestFirstSearch, aStar),     *)
(* reconstructPath and the POST /solve handler.                            *)
(*                                                                         *)
(* JavaScript values are modelled as follows.  A board is a sequence of    *)
(* three rows of three integers; the code's 0-based coordinates (x, y) are *)
(* kept and turned into 1-based sequence indices where a cell is read.     *)
(* null is the record Null; a PuzzleState object is a record that carries  *)
(* its parent object as a field (objects are never mutated once they are   *)
(* in the frontier, so the value stands for the reference).  An id string  *)
(* "1,2,3,..." is the flattened sequence of the tiles.                     *)
(***************************************************************************)
EXTENDS Integers, Sequences, FiniteSets

VARIABLES
  pc,           \* "idle", or the driver that is running, or "respond"
  algorithm,    \* req.body.algorithm of the request being served
  heuristic,    \* the heuristic function handed to the driver ("none" for bfs)
  initialState, \* new PuzzleState(puzzle)
  frontier,     \* the driver's frontier array
  explored,     \* the driver's explored Set (of ids)
  iterations,   \* the driver's iteration counter
  state,        \* the driver's loop variable: the state last shifted off
  solution,     \* the handler's solution variable
  response,     \* the last HTTP response sent
  expanded,     \* history: ids whose successors were generated, in order
  trace,        \* history: frontier and explored after each pass, if kept
  memo          \* history: one completed solve kept for comparison

vars == <<pc, algorithm, heuristic, initialState, frontier, explored,
          iterations, state, solution, response, expanded, trace, memo>>

----------------------------------------------------------------------------
(* Bounds of the model *)

\* initial boards are the boards at most this many slides away from the goal
MaxScramble == 7

\* repeated solves are compared on boards at most this many slides away
MaxRepeatScramble == 2

----------------------------------------------------------------------------
(* JavaScript values *)

Null == [type |-> "null"]

Arr(items) == [type |-> "array", items |-> items]

\* a truthiness under which the empty array is falsy as well
NeverEmptyTruthy(v) == v.type # "null" /\ (v.type = "array" => Len(v.items) > 0)

\* JavaScript truthiness of null / an object / an array: only null is falsy
Truthy(v) == v.type # "null"

----------------------------------------------------------------------------
(* class PuzzleState *)

\* a constructor that copies the depth of the parent
PuzzleStateSameDepth(board, parent, move) ==
  [type |-> "PuzzleState", board |-> board, parent |-> parent, move |-> move,
   g |-> IF Truthy(parent) THEN parent.g ELSE 0, h |-> 0, f |-> 0]

PuzzleState(board, parent, move) ==
  [type |-> "PuzzleState", board |-> board, parent |-> parent, move |-> move,
   g |-> IF Truthy(parent) THEN parent.g + 1 ELSE 0, h |-> 0, f |-> 0]

flat(board) == board[1] \o board[2] \o board[3]

getId(s) == flat(s.board)

isGoal(s) == getId(s) = <<1, 2, 3, 4, 5, 6, 7, 8, 0>>

\* the first cell holding 0 in row-major order, as 0-based <<i, j>>
findZero(s) ==
  LET zeros == {c \in (0..2) \X (0..2) : s.board[c[1] + 1][c[2] + 1] = 0}
  IN  CHOOSE c \in zeros :
        \A d \in zeros : c[1] < d[1] \/ (c[1] = d[1] /\ c[2] <= d[2])

\* the four moves tried in another order
movesRowFirst == <<<<1, 0>>, <<0, 1>>, <<-1, 0>>, <<0, -1>>>>

moves == <<<<0, 1>>, <<1, 0>>, <<0, -1>>, <<-1, 0>>>>

\* the destructuring swap of line 36 on a copy of the board
swapCells(board, x, y, newX, newY) ==
  [i \in 1..3 |-> [j \in 1..3 |->
     IF i = x + 1 /\ j = y + 1 THEN board[newX + 1][newY + 1]
     ELSE IF i = newX + 1 /\ j = newY + 1 THEN board[x + 1][y + 1]
     ELSE board[i][j]]]

getNeighbors(s) ==
  LET z == findZero(s)
      x == z[1]
      y == z[2]
      legal == SelectSeq(moves, LAMBDA m :
                 /\ x + m[1] >= 0 /\ x + m[1] < 3
                 /\ y + m[2] >= 0 /\ y + m[2] < 3)
  IN  [k \in 1..Len(legal) |->
         PuzzleState(swapCells(s.board, x, y, x + legal[k][1], y + legal[k][2]),
                     s, legal[k])]

----------------------------------------------------------------------------
(* heuristics *)

abs(n) == IF n < 0 THEN -n ELSE n

\* a count of misplaced cells that does not leave the blank out
hammingCountingBlank(s) ==
  LET tiles == flat(s.board)
  IN  Cardinality({index \in 0..(Len(tiles) - 1) :
         tiles[index + 1] # (index + 1) % 9})

hammingDistance(s) ==
  LET tiles == flat(s.board)
  IN  Cardinality({index \in 0..(Len(tiles) - 1) :
         tiles[index + 1] # 0 /\ tiles[index + 1] # index + 1})

RECURSIVE manhattanSum(_, _)
manhattanSum(s, cell) ==
  IF cell > 8 THEN 0
  ELSE LET i == cell \div 3
           j == cell % 3
           tile == s.board[i + 1][j + 1]
           goalX == (tile - 1) \div 3
           goalY == (tile - 1) % 3
       IN  (IF tile # 0 THEN abs(goalX - i) + abs(goalY - j) ELSE 0)
           + manhattanSum(s, cell + 1)

\* a sum of distances that counts every step twice
manhattanDoubled(s) == 2 * manhattanSum(s, 0)

manhattanDistance(s) == manhattanSum(s, 0)

\* calling the function object the driver was given
callHeuristic(fn, s) ==
  IF fn = "hammingDistance" THEN hammingDistance(s) ELSE manhattanDistance(s)

----------------------------------------------------------------------------
(* reconstructPath *)

\* a push that puts the item at the front
pushFront(arr, item) == <<item>> \o arr

push(arr, item) == Append(arr, item)

\* an unshift that puts the item at the end
unshiftAtEnd(arr, item) == Append(arr, item)

unshift(arr, item) == <<item>> \o arr

\* the while loop of reconstructPath, entered with the path built so far
RECURSIVE reconstructPathLoop(_, _)
reconstructPathLoop(s, path) ==
  IF Truthy(s.parent)
  THEN reconstructPathLoop(s.parent, unshift(path, s.move))
  ELSE path

reconstructPath(s) == reconstructPathLoop(s, <<>>)

----------------------------------------------------------------------------
(* array helpers of the drivers *)

\* a findIndex whose test is s[key] >= value
findIndexAtLeast(arr, key, value) ==
  IF \E i \in 1..Len(arr) : arr[i][key] >= value
  THEN (CHOOSE i \in 1..Len(arr) :
          arr[i][key] >= value /\ \A j \in 1..(i - 1) : ~(arr[j][key] >= value)) - 1
  ELSE -1

\* arr.findIndex(s => s[key] > value): 0-based index of the first match, or -1
findIndex(arr, key, value) ==
  IF \E i \in 1..Len(arr) : arr[i][key] > value
  THEN (CHOOSE i \in 1..Len(arr) :
          arr[i][key] > value /\ \A j \in 1..(i - 1) : ~(arr[j][key] > value)) - 1
  ELSE -1

\* arr.splice(index, 0, item)
splice(arr, index, item) ==
  SubSeq(arr, 1, index) \o <<item>> \o SubSeq(arr, index + 1, Len(arr))

\* an insertion that does not look for a place
insertAtEnd(fr, neighbor, key) == push(fr, neighbor)

\* lines 125-130 and 163-168: insert before the first entry with a larger key
insertByKey(fr, neighbor, key) ==
  LET index == findIndex(fr, key, neighbor[key])
  IN  IF index = -1 THEN push(fr, neighbor) ELSE splice(fr, index, neighbor)

\* the field bestFirstSearch orders its frontier by
keyH == "h"

\* a key that leaves the depth out
keyFWithoutG == "h"

\* the field aStar orders its frontier by
keyF == "f"

----------------------------------------------------------------------------
(* the for loops over the neighbours; each returns the frontier and the    *)
(* explored set it leaves behind                                           *)

\* an add that forgets the id
addNothing(set, id) == set

\* Set.prototype.add
add(set, id) == set \cup {id}

\* the test of line 91 without its negation
RECURSIVE bfsNeighborsOnlyExplored(_, _, _, _)
bfsNeighborsOnlyExplored(neighbors, k, fr, ex) ==
  IF k > Len(neighbors) THEN [frontier |-> fr, explored |-> ex]
  ELSE LET neighbor == neighbors[k]
       IN  IF getId(neighbor) \in ex
           THEN bfsNeighborsOnlyExplored(neighbors, k + 1, push(fr, neighbor),
                                         add(ex, getId(neighbor)))
           ELSE bfsNeighborsOnlyExplored(neighbors, k + 1, fr, ex)

\* the loop of bfs without the add of line 93
RECURSIVE bfsNeighborsUnmarked(_, _, _, _)
bfsNeighborsUnmarked(neighbors, k, fr, ex) ==
  IF k > Len(neighbors) THEN [frontier |-> fr, explored |-> ex]
  ELSE LET neighbor == neighbors[k]
       IN  IF getId(neighbor) \notin ex
           THEN bfsNeighborsUnmarked(neighbors, k + 1, push(fr, neighbor), ex)
           ELSE bfsNeighborsUnmarked(neighbors, k + 1, fr, ex)

RECURSIVE bfsNeighbors(_, _, _, _)
bfsNeighbors(neighbors, k, fr, ex) ==
  IF k > Len(neighbors) THEN [frontier |-> fr, explored |-> ex]
  ELSE LET neighbor == neighbors[k]
       IN  IF getId(neighbor) \notin ex
           THEN bfsNeighbors(neighbors, k + 1, push(fr, neighbor),
                             add(ex, getId(neighbor)))
           ELSE bfsNeighbors(neighbors, k + 1, fr, ex)

\* the loop of bestFirstSearch with the add that bfs has at line 93
RECURSIVE bestFirstNeighborsMarking(_, _, _, _, _)
bestFirstNeighborsMarking(neighbors, k, fr, ex, fn) ==
  IF k > Len(neighbors) THEN [frontier |-> fr, explored |-> ex]
  ELSE IF getId(neighbors[k]) \notin ex
       THEN LET neighbor == [neighbors[k] EXCEPT
                               !.h = callHeuristic(fn, neighbors[k])]
            IN  bestFirstNeighborsMarking(neighbors, k + 1,
                                          insertByKey(fr, neighbor, keyH),
                                          add(ex, getId(neighbor)), fn)
       ELSE bestFirstNeighborsMarking(neighbors, k + 1, fr, ex, fn)

RECURSIVE bestFirstNeighbors(_, _, _, _, _)
bestFirstNeighbors(neighbors, k, fr, ex, fn) ==
  IF k > Len(neighbors) THEN [frontier |-> fr, explored |-> ex]
  ELSE IF getId(neighbors[k]) \notin ex
       THEN LET neighbor == [neighbors[k] EXCEPT
                               !.h = callHeuristic(fn, neighbors[k])]
            IN  bestFirstNeighbors(neighbors, k + 1,
                                   insertByKey(fr, neighbor, keyH), ex, fn)
       ELSE bestFirstNeighbors(neighbors, k + 1, fr, ex, fn)

\* the loop of aStar with line 162 storing the heuristic alone in f
RECURSIVE aStarNeighborsFIsH(_, _, _, _, _)
aStarNeighborsFIsH(neighbors, k, fr, ex, fn) ==
  IF k > Len(neighbors) THEN [frontier |-> fr, explored |-> ex]
  ELSE IF getId(neighbors[k]) \notin ex
       THEN LET scored == [neighbors[k] EXCEPT
                             !.h = callHeuristic(fn, neighbors[k])]
                neighbor == [scored EXCEPT !.f = scored.h]
            IN  aStarNeighborsFIsH(neighbors, k + 1,
                                   insertByKey(fr, neighbor, keyF), ex, fn)
       ELSE aStarNeighborsFIsH(neighbors, k + 1, fr, ex, fn)

RECURSIVE aStarNeighbors(_, _, _, _, _)
aStarNeighbors(neighbors, k, fr, ex, fn) ==
  IF k > Len(neighbors) THEN [frontier |-> fr, explored |-> ex]
  ELSE IF getId(neighbors[k]) \notin ex
       THEN LET scored == [neighbors[k] EXCEPT
                             !.h = callHeuristic(fn, neighbors[k])]
                neighbor == [scored EXCEPT !.f = scored.g + scored.h]
            IN  aStarNeighbors(neighbors, k + 1,
                               insertByKey(fr, neighbor, keyF), ex, fn)
       ELSE aStarNeighbors(neighbors, k + 1, fr, ex, fn)

----------------------------------------------------------------------------
(* one pass of a driver's while loop: the loop test, and either the return *)
(* (goal shifted off, or frontier empty) or the expansion                  *)

driverReturn(value) ==
  /\ solution' = value
  /\ pc' = "respond"

driverLoop(after) ==
  /\ IF Len(frontier) > 0
     THEN /\ iterations' = iterations + 1
          /\ state' = Head(frontier)
          /\ IF isGoal(Head(frontier))
             THEN /\ driverReturn(Arr(reconstructPath(Head(frontier))))
                  /\ frontier' = Tail(frontier)
                  /\ UNCHANGED <<explored, expanded>>
             ELSE /\ frontier' = after.frontier
                  /\ explored' = after.explored
                  /\ expanded' = Append(expanded, getId(Head(frontier)))
                  /\ UNCHANGED <<pc, solution>>
     ELSE /\ driverReturn(Null)
          /\ UNCHANGED <<frontier, explored, iterations, state, expanded>>
  /\ trace' = IF memo.type = "off" THEN trace
              ELSE Append(trace, <<frontier', explored'>>)

bfs ==
  /\ pc = "bfs"
  /\ driverLoop(bfsNeighbors(getNeighbors(Head(frontier)), 1, Tail(frontier),
                             add(explored, getId(Head(frontier)))))
  /\ UNCHANGED <<algorithm, heuristic, initialState, response, memo>>

bestFirstSearch ==
  /\ pc = "bestFirstSearch"
  /\ driverLoop(bestFirstNeighbors(getNeighbors(Head(frontier)), 1,
                                   Tail(frontier),
                                   add(explored, getId(Head(frontier))),
                                   heuristic))
  /\ UNCHANGED <<algorithm, heuristic, initialState, response, memo>>

aStar ==
  /\ pc = "aStar"
  /\ driverLoop(aStarNeighbors(getNeighbors(Head(frontier)), 1,
                               Tail(frontier),
                               add(explored, getId(Head(frontier))),
                               heuristic))
  /\ UNCHANGED <<algorithm, heuristic, initialState, response, memo>>

----------------------------------------------------------------------------
(* app.post('/solve') *)

NoResponse == [status |-> 0, body |-> [nothing |-> TRUE]]

\* a set that outlives the call: what the last driver left in explored
leftOverSet == explored

\* new Set() at the head of each driver
newSet == {}

\* lines 72-74, 103-105, 140-142: the locals of a driver that has just been
\* called
driverCall(driver, fn, root) ==
  /\ pc' = driver
  /\ heuristic' = fn
  /\ frontier' = <<root>>
  /\ explored' = newSet
  /\ iterations' = 0

\* heuristic === 'hamming' ? hammingDistance : manhattanDistance
pickHeuristic(name) ==
  IF name = "hamming" THEN "hammingDistance" ELSE "manhattanDistance"

\* a switch that compares the labels without regard to case
switchCaseAnyCase(alg) ==
  IF alg \in {"bfs", "BFS"} THEN "bfs"
  ELSE IF alg = "bestFirst" THEN "bestFirstSearch"
  ELSE IF alg \in {"aStar", "astar"} THEN "aStar"
  ELSE "default"

\* switch (algorithm): the driver of the matching case label
switchCase(alg) ==
  IF alg = "bfs" THEN "bfs"
  ELSE IF alg = "bestFirst" THEN "bestFirstSearch"
  ELSE IF alg = "aStar" THEN "aStar"
  ELSE "default"

\* lines 185-211: the handler up to the call of a driver, or to the 400
solve(puzzle, alg, name) ==
  /\ pc = "idle"
  /\ algorithm' = alg
  /\ initialState' = PuzzleState(puzzle, Null, Null)
  /\ solution' = Null
  /\ state' = Null
  /\ expanded' = <<>>
  /\ trace' = <<>>
  /\ IF switchCase(alg) = "bfs"
     THEN /\ driverCall("bfs", "none", initialState')
          /\ response' = NoResponse
     ELSE IF switchCase(alg) = "bestFirstSearch"
     THEN /\ driverCall("bestFirstSearch", pickHeuristic(name), initialState')
          /\ response' = NoResponse
     ELSE IF switchCase(alg) = "aStar"
     THEN /\ driverCall("aStar", pickHeuristic(name), initialState')
          /\ response' = NoResponse
     ELSE \* no driver is called: none of its locals exists
          /\ response' = [status |-> 400,
                          body |-> [error |-> "Invalid algorithm"]]
          /\ pc' = "idle"
          /\ heuristic' = "none"
          /\ frontier' = <<>>
          /\ explored' = {}
          /\ iterations' = 0
  /\ UNCHANGED memo

\* lines 213-223: the handler after the driver has returned
sendResult ==
  /\ pc' = "idle"
  /\ response' = IF Truthy(solution)
                 THEN [status |-> 200, body |-> [solution |-> solution.items]]
                 ELSE [status |-> 404,
                       body |-> [error |-> "No solution found"]]
  /\ UNCHANGED <<algorithm, heuristic, initialState, frontier, explored,
                 iterations, state, solution, expanded, trace>>

respond ==
  /\ pc = "respond"
  /\ sendResult
  /\ UNCHANGED memo

\* the same step, with the finished solve kept as the one to compare with
respondAndKeep ==
  /\ pc = "respond"
  /\ memo.type = "empty"
  /\ sendResult
  /\ memo' = [type |-> "kept", puzzle |-> initialState.board,
              algorithm |-> algorithm, heuristic |-> heuristic,
              trace |-> trace, response |-> response']

----------------------------------------------------------------------------
(* requests *)

GoalBoard == <<<<1, 2, 3>>, <<4, 5, 6>>, <<7, 8, 0>>>>

Cells == (1..3) \X (1..3)

Deltas == {<<0, 1>>, <<1, 0>>, <<0, -1>>, <<-1, 0>>}

\* the cell of the blank, 1-based
BlankOf(b) == CHOOSE c \in Cells : b[c[1]][c[2]] = 0

MoveInGrid(b, d) ==
  <<BlankOf(b)[1] + d[1], BlankOf(b)[2] + d[2]>> \in Cells

\* the board after the blank has changed places with the cell at blank + d
Slide(b, d) ==
  LET from == BlankOf(b)
      to == <<from[1] + d[1], from[2] + d[2]>>
  IN  [b EXCEPT ![from[1]][from[2]] = b[to[1]][to[2]],
                ![to[1]][to[2]] = 0]

Slides(b) == {Slide(b, d) : d \in {e \in Deltas : MoveInGrid(b, e)}}

\* Within[k]: the boards at most k slides away from the goal board (a slide
\* can be undone by a slide, so this is also the distance to the goal)
Within[k \in Nat] ==
  IF k = 0 THEN {GoalBoard}
  ELSE LET nearer == Within[k - 1]
       IN  nearer \cup UNION {Slides(b) : b \in nearer}

ScrambledBoards == Within[MaxScramble]

\* a board eight slides away from the goal board, on which ordering the
\* frontier by h alone finds a path of ten moves
DeepBoards == {<<<<1, 6, 2>>, <<5, 0, 3>>, <<4, 7, 8>>>>}

RepeatBoards == Within[MaxRepeatScramble]

\* a well-formed board holds each of 0..8 exactly once
WellFormed(b) == \A t \in 0..8 : \E c \in Cells :
                   /\ b[c[1]][c[2]] = t
                   /\ \A d \in Cells : b[d[1]][d[2]] = t => d = c

\* boards the handler accepts although they are not well-formed: one blank
\* and eight tiles 1
RepeatedTileBoards ==
  {[i \in 1..3 |-> [j \in 1..3 |-> IF <<i, j>> = c THEN 0 ELSE 1]] :
     c \in Cells}

Algorithms == {"bfs", "bestFirst", "aStar", "BFS", "astar"}

HeuristicNames == {"hamming", "manhattan", "euclidean"}

----------------------------------------------------------------------------
(* specifications *)

InitWith(m) ==
  /\ pc = "idle"
  /\ algorithm = "bfs"
  /\ heuristic = "none"
  /\ initialState = PuzzleState(GoalBoard, Null, Null)
  /\ frontier = <<>>
  /\ explored = {}
  /\ iterations = 0
  /\ state = Null
  /\ solution = Null
  /\ response = NoResponse
  /\ expanded = <<>>
  /\ trace = <<>>
  /\ memo = m

Init == InitWith([type |-> "off"])

Next ==
  \/ \E puzzle \in ScrambledBoards \cup DeepBoards \cup RepeatedTileBoards,
        alg \in Algorithms, name \in HeuristicNames : solve(puzzle, alg, name)
  \/ bfs
  \/ bestFirstSearch
  \/ aStar
  \/ respond

Spec == Init /\ [][Next]_vars

\* the server answering one request after another, one finished solve kept
InitRepeat == InitWith([type |-> "empty"])

NextRepeat ==
  \/ \E puzzle \in RepeatBoards,
        alg \in Algorithms, name \in HeuristicNames : solve(puzzle, alg, name)
  \/ bfs
  \/ bestFirstSearch
  \/ aStar
  \/ respond
  \/ respondAndKeep

SpecRepeat == InitRepeat /\ [][NextRepeat]_vars

----------------------------------------------------------------------------
(* what a move sequence does to a board *)

RECURSIVE Replay(_, _)
Replay(b, path) ==
  IF path = <<>> THEN b ELSE Replay(Slide(b, Head(path)), Tail(path))

RECURSIVE StaysInGrid(_, _)
StaysInGrid(b, path) ==
  \/ path = <<>>
  \/ /\ MoveInGrid(b, Head(path))
     /\ StaysInGrid(Slide(b, Head(path)), Tail(path))

\* the least number of slides between the board and the goal board
RECURSIVE DistFrom(_, _)
DistFrom(b, k) == IF b \in Within[k] THEN k ELSE DistFrom(b, k + 1)

DistToGoal(b) == DistFrom(b, 0)

Drivers == {"bfs", "bestFirstSearch", "aStar"}

\* a driver has just returned a move sequence for a well-formed board
ReturnedPath ==
  /\ pc = "respond"
  /\ solution.type = "array"
  /\ WellFormed(initialState.board)

----------------------------------------------------------------------------
(* claims *)

\* C1: whenever a driver returns a move sequence for a well-formed board,
\* replaying the moves from the initial board keeps the blank inside the
\* grid at every step and ends on the goal board.
C1_PathLeadsToGoal ==
  ReturnedPath =>
    /\ StaysInGrid(initialState.board, solution.items)
    /\ Replay(initialState.board, solution.items) = GoalBoard

C1_Witness ==
  /\ ReturnedPath
  /\ Len(solution.items) >= 3
  /\ solution.items[1] # solution.items[Len(solution.items)]

\* C2: the move sequence bfs returns for a well-formed board is as long as
\* the least number of slides from that board to the goal board.
C2_BfsShortest ==
  (ReturnedPath /\ algorithm = "bfs") =>
    Len(solution.items) = DistToGoal(initialState.board)

C2_Witness ==
  /\ ReturnedPath
  /\ algorithm = "bfs"
  /\ Len(solution.items) >= 5

\* C3: the move sequence aStar returns with manhattanDistance for a
\* well-formed board is as long as the least number of slides from that
\* board to the goal board (the length bfs returns, by C2).
C3_AStarManhattanShortest ==
  (ReturnedPath /\ algorithm = "aStar" /\ heuristic = "manhattanDistance") =>
    Len(solution.items) = DistToGoal(initialState.board)

C3_Witness ==
  /\ ReturnedPath
  /\ algorithm = "aStar"
  /\ heuristic = "manhattanDistance"
  /\ Len(solution.items) >= 5

\* the number of pairs of tiles (the blank left out) that stand in the wrong
\* order in the row-major reading of the board
Inversions(b) ==
  Cardinality({p \in (1..9) \X (1..9) :
     /\ p[1] < p[2]
     /\ flat(b)[p[1]] # 0
     /\ flat(b)[p[2]] # 0
     /\ flat(b)[p[1]] > flat(b)[p[2]]})

\* on a grid of odd width a slide keeps the parity of the inversions, and
\* the goal board has none: the goal can be reached from exactly the
\* well-formed boards with an even number of inversions
GoalReachable(b) == WellFormed(b) /\ Inversions(b) % 2 = 0

ValidAlgorithms == {"bfs", "bestFirst", "aStar"}

\* C5: on a board from which the goal can be reached every driver returns a
\* move sequence; null is returned only with the frontier empty and on a
\* board from which the goal cannot be reached.
C5_Complete ==
  pc = "respond" =>
    /\ GoalReachable(initialState.board) => solution.type = "array"
    /\ solution = Null =>
         Len(frontier) = 0 /\ ~GoalReachable(initialState.board)

C5_Witness ==
  /\ pc = "respond"
  /\ GoalReachable(initialState.board)
  /\ algorithm = "bestFirst"
  /\ solution.type = "array"
  /\ iterations >= 10

\* the other half of C5 happens too: null comes back for a board that the
\* handler accepts and from which the goal cannot be reached
C5_NullReturned ==
  /\ pc = "respond"
  /\ solution = Null
  /\ Len(frontier) = 0

\* C6: with the goal board as the initial board a driver returns the empty
\* move sequence on its first pass through the loop, and the handler
\* answers 200 with that empty sequence.
C6_GoalGivesEmptyPath ==
  (isGoal(initialState) /\ algorithm \in ValidAlgorithms) =>
    /\ pc \in Drivers => iterations = 0
    /\ pc = "respond" => iterations = 1 /\ solution = Arr(<<>>)
    /\ (pc = "idle" /\ response # NoResponse) =>
         response = [status |-> 200, body |-> [solution |-> <<>>]]

C6_Witness ==
  /\ isGoal(initialState)
  /\ algorithm = "aStar"
  /\ pc = "idle"
  /\ response.status = 200

\* the request being served is the one whose solve is kept in memo
SameAsKept ==
  /\ memo.type = "kept"
  /\ initialState.board = memo.puzzle
  /\ algorithm = memo.algorithm
  /\ heuristic = memo.heuristic

\* C7: a solve of the request that was solved and kept before, whatever was
\* solved in between, goes through the same frontiers and explored sets
\* pass by pass and ends with the same response.
C7_Deterministic ==
  SameAsKept =>
    /\ Len(trace) <= Len(memo.trace)
    /\ trace = SubSeq(memo.trace, 1, Len(trace))
    /\ (pc = "idle" /\ response # NoResponse) =>
         trace = memo.trace /\ response = memo.response

C7_Witness ==
  /\ SameAsKept
  /\ pc = "respond"
  /\ Len(trace) >= 3

\* C8: a request whose algorithm is none of 'bfs', 'bestFirst', 'aStar' is
\* answered 400 'Invalid algorithm' in the same step, no driver is entered
\* and no frontier or explored set exists.
C8_InvalidAlgorithmRejected ==
  algorithm \notin ValidAlgorithms =>
    /\ pc = "idle"
    /\ response = [status |-> 400, body |-> [error |-> "Invalid algorithm"]]
    /\ frontier = <<>>
    /\ explored = {}
    /\ iterations = 0
    /\ expanded = <<>>

C8_Witness ==
  /\ algorithm = "astar"
  /\ response.status = 400

\* C9: during a solve no board identity is expanded more than once.
C9_NoReExpansion ==
  WellFormed(initialState.board) =>
    \A i, j \in 1..Len(expanded) : expanded[i] = expanded[j] => i = j

\* the state in the loop variable has been expanded and is not the root
ExpandedNonRoot ==
  /\ pc \in Drivers
  /\ state # Null
  /\ Truthy(state.parent)

\* C10 as stated: no successor that getNeighbors returns for a non-root
\* state has the board of that state's parent.
C10_NoSuccessorUndoes ==
  (ExpandedNonRoot /\ WellFormed(initialState.board)) =>
    \A k \in 1..Len(getNeighbors(state)) :
      getNeighbors(state)[k].board # state.parent.board

\* C10 amended: getNeighbors returns exactly one successor with the board
\* of the parent (the move undone), and no driver puts a successor with the
\* board of its parent's parent into the frontier.
C10_UndoNeverEnqueued ==
  /\ ExpandedNonRoot =>
       Cardinality({k \in 1..Len(getNeighbors(state)) :
          getNeighbors(state)[k].board = state.parent.board}) = 1
  /\ \A i \in 1..Len(frontier) :
       (Truthy(frontier[i].parent) /\ Truthy(frontier[i].parent.parent)) =>
         frontier[i].board # frontier[i].parent.parent.board

C10_Witness ==
  /\ ExpandedNonRoot
  /\ WellFormed(initialState.board)
  /\ \E i \in 1..Len(frontier) : frontier[i].parent = state

\* C11 as stated: every state in the frontier of any driver has f = g + h.
C11_FIsGPlusH ==
  (pc \in Drivers /\ WellFormed(initialState.board)) =>
    \A i \in 1..Len(frontier) :
      frontier[i].f = frontier[i].g + frontier[i].h

\* C11 amended: every state in the frontier of aStar has f = g + h; in the
\* frontiers of bfs and bestFirstSearch f keeps the 0 of the constructor
\* (and so does h in bfs), whatever the depth g.
C11_FIsGPlusHInAStar ==
  \A i \in 1..Len(frontier) :
    /\ pc = "aStar" => frontier[i].f = frontier[i].g + frontier[i].h
    /\ pc = "bestFirstSearch" => frontier[i].f = 0
    /\ pc = "bfs" => frontier[i].f = 0 /\ frontier[i].h = 0

C11_Witness ==
  /\ pc = "aStar"
  /\ WellFormed(initialState.board)
  /\ \E i \in 1..Len(frontier) : frontier[i].g >= 3 /\ frontier[i].h >= 3

\* a driver is running on a well-formed board and has expanded the state in
\* its loop variable
Expanding ==
  /\ pc \in Drivers
  /\ state # Null
  /\ WellFormed(initialState.board)

\* the loop variable holds a state of a solve of a well-formed board: one
\* that was expanded, or the goal state that ended the solve
Shifted ==
  /\ state # Null
  /\ WellFormed(initialState.board)

Corners == {<<1, 1>>, <<1, 3>>, <<3, 1>>, <<3, 3>>}

\* C12: getNeighbors returns 2 successors with the blank in a corner, 4 with
\* the blank in the centre and 3 otherwise; the successors are, in the
\* order (0,1), (1,0), (0,-1), (-1,0), the slides that stay in the grid,
\* each with the slid board, the delta as its move, the input as its
\* parent and the input's g + 1.
C12_Successors ==
  Shifted =>
    LET n == getNeighbors(state)
        inGrid == SelectSeq(<<<<0, 1>>, <<1, 0>>, <<0, -1>>, <<-1, 0>>>>,
                            LAMBDA d : MoveInGrid(state.board, d))
    IN  /\ Len(n) = IF BlankOf(state.board) \in Corners THEN 2
                    ELSE IF BlankOf(state.board) = <<2, 2>> THEN 4 ELSE 3
        /\ [k \in 1..Len(n) |-> n[k].move] = inGrid
        /\ \A k \in 1..Len(n) :
             /\ n[k].board = Slide(state.board, n[k].move)
             /\ n[k].board # state.board
             /\ n[k].parent = state
             /\ n[k].g = state.g + 1

C12_Witness ==
  /\ Expanding
  /\ state.g >= 2
  /\ Len(getNeighbors(state)) = 4

\* C13: hammingDistance and manhattanDistance are never negative, are 0 on
\* the goal board, differ by at most 1 between a board and any of its
\* successors (h(b) <= 1 + h(b')), and do not exceed the least number of
\* slides to the goal.
C13_HeuristicsConsistent ==
  Shifted =>
    /\ hammingDistance(state) >= 0
    /\ manhattanDistance(state) >= 0
    /\ isGoal(state) =>
         hammingDistance(state) = 0 /\ manhattanDistance(state) = 0
    /\ \A k \in 1..Len(getNeighbors(state)) :
         /\ hammingDistance(state) <= 1 + hammingDistance(getNeighbors(state)[k])
         /\ manhattanDistance(state)
              <= 1 + manhattanDistance(getNeighbors(state)[k])
    /\ iterations = 1 =>
         /\ hammingDistance(state) <= DistToGoal(state.board)
         /\ manhattanDistance(state) <= DistToGoal(state.board)

\* the goal state has been scored as well
C13_GoalScored ==
  /\ Shifted
  /\ isGoal(state)
  /\ state.g >= 1

C13_Witness ==
  /\ Expanding
  /\ iterations = 1
  /\ hammingDistance(state) >= 4
  /\ manhattanDistance(state) > hammingDistance(state)

\* no two entries of the sequence are equal
Distinct(seq) == Cardinality({seq[i] : i \in 1..Len(seq)}) = Len(seq)

FrontierIds == [i \in 1..Len(frontier) |-> getId(frontier[i])]

\* the ids bfs has enqueued so far: those expanded, the goal state that ended
\* the solve, and those still waiting
BfsEnqueuedIds ==
  expanded
    \o (IF pc = "respond" /\ solution.type = "array"
        THEN <<getId(state)>> ELSE <<>>)
    \o FrontierIds

\* C14: in bfs no two states in the frontier have the same id, no id is
\* enqueued twice in a solve, and every state in the frontier but the root
\* has its id in the explored set.
C14_BfsEnqueuesOnce ==
  (algorithm = "bfs" /\ pc \in {"bfs", "respond"}) =>
    /\ Distinct(FrontierIds)
    /\ Distinct(BfsEnqueuedIds)
    /\ \A i \in 1..Len(frontier) :
         Truthy(frontier[i].parent) => getId(frontier[i]) \in explored

C14_Witness ==
  /\ pc = "bfs"
  /\ WellFormed(initialState.board)
  /\ Len(frontier) >= 8
  /\ Len(expanded) >= 8

InformedDrivers == {"bestFirstSearch", "aStar"}

\* C15: in bestFirstSearch and aStar the explored set is, between passes,
\* exactly the set of the ids expanded so far: an insertion into the
\* frontier adds nothing to it.
C15_ExploredIsExpanded ==
  pc \in InformedDrivers =>
    explored = {expanded[i] : i \in 1..Len(expanded)}

\* ... so that an id can wait in the frontier more than once
C15_Witness ==
  /\ pc \in InformedDrivers
  /\ WellFormed(initialState.board)
  /\ ~Distinct(FrontierIds)
  /\ \E i \in 1..Len(frontier) : getId(frontier[i]) \notin explored

\* C16: between passes the frontier of bestFirstSearch is in non-decreasing
\* order of h and that of aStar in non-decreasing order of f, so the state
\* at the front has the least key of all.
C16_FrontierSorted ==
  /\ pc = "bestFirstSearch" =>
       \A i, j \in 1..Len(frontier) :
         i < j => frontier[i].h <= frontier[j].h
  /\ pc = "aStar" =>
       \A i, j \in 1..Len(frontier) :
         i < j => frontier[i].f <= frontier[j].f

C16_Witness ==
  /\ pc = "aStar"
  /\ WellFormed(initialState.board)
  /\ Len(frontier) >= 6
  /\ frontier[1].f < frontier[Len(frontier)].f
  /\ frontier[1].h > frontier[Len(frontier)].h

\* the key the running driver orders its frontier by
KeyOf(s) == IF pc = "aStar" THEN s.f ELSE s.h

\* a pass of bestFirstSearch or aStar that expands a state
InformedExpansion ==
  /\ pc \in InformedDrivers
  /\ pc' = pc
  /\ iterations' = iterations + 1

\* the place of a successor among the successors of the state just expanded,
\* which are inserted in that order
RankOf(s) ==
  CHOOSE k \in 1..Len(getNeighbors(state')) :
    getNeighbors(state')[k].move = s.move

\* C17: the state removed is the one at the front; the states that stay keep
\* their order; and each successor inserted stands behind every state that
\* was in the frontier before it with a key less than or equal to its own,
\* and in front of every such state with a greater key.  Hence of two states
\* with equal keys the one inserted earlier is nearer the front and is
\* removed first.
C17_StableInsertion ==
  [][InformedExpansion =>
       /\ state' = Head(frontier)
       /\ SelectSeq(frontier', LAMBDA s : s.parent # state') = Tail(frontier)
       /\ \A p, q \in 1..Len(frontier') :
            ( /\ frontier'[p].parent = state'
              /\ p # q
              /\ \/ frontier'[q].parent # state'
                 \/ RankOf(frontier'[q]) < RankOf(frontier'[p]) )
            => (q < p <=> KeyOf(frontier'[q]) <= KeyOf(frontier'[p]))
    ]_vars

\* a successor has just been put behind an older state with the same key
\* and in front of an older state with a greater key
C17_Witness ==
  /\ pc \in InformedDrivers
  /\ WellFormed(initialState.board)
  /\ state # Null
  /\ \E i, j, k \in 1..Len(frontier) :
       /\ i < j /\ j < k
       /\ frontier[i].parent # state
       /\ frontier[j].parent = state
       /\ frontier[k].parent # state
       /\ KeyOf(frontier[i]) = KeyOf(frontier[j])
       /\ KeyOf(frontier[j]) < KeyOf(frontier[k])

\* the state, its parent, the parent of that, ... up to the state without
\* a parent
RECURSIVE ChainOf(_)
ChainOf(s) == IF Truthy(s.parent) THEN <<s>> \o ChainOf(s.parent) ELSE <<s>>

\* the states of the solve that are at hand: those in the frontier, the one
\* in the loop variable and the successors generated from it
StatesAtHand ==
  {frontier[i] : i \in 1..Len(frontier)}
    \cup (IF state = Null THEN {}
          ELSE {state} \cup {getNeighbors(state)[k] :
                               k \in 1..Len(getNeighbors(state))})

ChainIsSound(s) ==
  LET c == ChainOf(s)
  IN  /\ Len(c) = s.g + 1
      /\ Distinct(c)
      /\ c[Len(c)] = initialState
      /\ c[Len(c)].g = 0
      /\ \A k \in 1..(Len(c) - 1) :
           /\ c[k].g = c[k + 1].g + 1
           /\ MoveInGrid(c[k + 1].board, c[k].move)
           /\ c[k].board = Slide(c[k + 1].board, c[k].move)

\* C18: from every state of a solve the parent links lead, in exactly g
\* steps and through pairwise different states, to the state without a
\* parent, which is the root; each link joins two boards that differ by
\* the recorded move; and the path reconstructPath returns is as long as
\* the g of the goal state.
C18_ParentChain ==
  pc \in Drivers \cup {"respond"} =>
    /\ \A s \in StatesAtHand : ChainIsSound(s)
    /\ (pc = "respond" /\ solution.type = "array") =>
         Len(solution.items) = state.g

C18_Witness ==
  /\ pc = "respond"
  /\ solution.type = "array"
  /\ WellFormed(initialState.board)
  /\ state.g >= 5
  /\ Len(frontier) >= 5

\* the boards at most k slides away from board b (none for k < 0)
RECURSIVE BallFrom(_, _)
BallFrom(b, k) ==
  IF k < 0 THEN {}
  ELSE IF k = 0 THEN {b}
  ELSE LET nearer == BallFrom(b, k - 1)
       IN  nearer \cup UNION {Slides(x) : x \in nearer}

\* the least number of slides from board b to board c is exactly k
DistanceIs(b, c, k) == c \in BallFrom(b, k) /\ c \notin BallFrom(b, k - 1)

\* C19: between the passes of bfs the depths g in the frontier do not
\* decrease from front to back and the last exceeds the first by at most 1;
\* no state waiting is less deep than the state removed last; and the g of
\* every state in the frontier is the least number of slides from the
\* initial board to its board.
C19_BfsLevels ==
  (pc = "bfs" /\ Len(frontier) > 0) =>
    LET first == frontier[1].g
        inner == BallFrom(initialState.board, first - 1)
        level == (inner \cup UNION {Slides(x) : x \in inner}
                        \cup (IF first = 0 THEN {initialState.board} ELSE {}))
                   \ inner
        next == UNION {Slides(x) : x \in level} \ (inner \cup level)
    IN  /\ \A i, j \in 1..Len(frontier) :
             i < j => frontier[i].g <= frontier[j].g
        /\ frontier[Len(frontier)].g - first <= 1
        /\ state # Null => state.g <= first
        /\ \A i \in 1..Len(frontier) :
             /\ frontier[i].g = first => frontier[i].board \in level
             /\ frontier[i].g = first + 1 => frontier[i].board \in next

C19_Witness ==
  /\ pc = "bfs"
  /\ WellFormed(initialState.board)
  /\ Len(frontier) >= 6
  /\ frontier[1].g >= 3
  /\ frontier[Len(frontier)].g = frontier[1].g + 1

\* a pass of aStar that shifts a state off the frontier
AStarRemoval == pc = "aStar" /\ iterations' = iterations + 1

\* C20: in aStar, with either heuristic, the f of the state a pass removes
\* is at least the f of the state the pass before removed; and when the id
\* of the removed state is not yet in explored (its board is removed for
\* the first time), its g is the least number of slides from the initial
\* board to its board.
C20_AStarMonotone ==
  [][AStarRemoval =>
       /\ state # Null => state.f <= state'.f
       /\ getId(state') \notin explored =>
            DistanceIs(initialState.board, state'.board, state'.g)
    ]_vars

C20_Witness ==
  /\ pc = "aStar"
  /\ WellFormed(initialState.board)
  /\ state # Null
  /\ state.g >= 4
  /\ state.h >= 1
  /\ Len(expanded) >= 6
  /\ \E i \in 1..Len(frontier) : getId(frontier[i]) \in explored

====
